---- MODULE Spec2Model ----
(***************************************************************************)
(* The validator client of exsat-client (src/src/validator/index.ts): the  *)
(* two node-cron tasks of setupCronJobs, checkAndSubmitEndorsement and     *)
(* submitEndorsement, run against a ledger and a chain that answer the     *)
(* client's calls.  A handler runs without interruption between two awaits;*)
(* each action below is one such stretch of a handler, from the return of  *)
(* the call it was suspended at to its next await (or to its end).         *)
(***************************************************************************)
EXTENDS Integers, Sequences, FiniteSets

\* ------------------------------------------------------------- bounds
\* Ticks of one task that may be suspended at the same time under Spec.
MaxOverlap == 2
\* The same under SpecPending and FairSpec.
MaxPending == 1
\* Highest chain tip under SpecCatchUp, and the highest height the ledger
\* keeps a record for.
DeepTip == 9
\* Under SpecCatchUp, the other validators have endorsed the blocks up to
\* some height of at most OthersAhead when the client starts.
OthersAhead == 2

\* The literal 6 of `blockcount - 6`.
ResumeWindow == 6

Accounts == {"alice", "bob"}
Tasks == {"endorse", "check"}
Slots == Tasks \X (1..MaxOverlap)
PendingSlots == Tasks \X (1..MaxPending)
Heights == 1..DeepTip

VARIABLES
  \* the module's globals
  endorseRunning, endorseCheckRunning, startupStatus,
  accountName, lastEndorseHeight, lastSubmittedHeight,
  \* the ledger and the chain the client talks to
  launched, tip, irreversible, ledger,
  \* the ticks in flight: per slot, the handler's position and locals
  inst,
  \* history: whether a launch query has answered true, and the heights of
  \* the blocks for which an endorse action of the account succeeded
  launchSeen, succeeded

vars == <<endorseRunning, endorseCheckRunning, startupStatus, accountName,
          lastEndorseHeight, lastSubmittedHeight, launched, tip, irreversible,
          ledger, inst, launchSeen, succeeded>>

globals == <<endorseRunning, endorseCheckRunning, startupStatus, accountName,
             lastEndorseHeight, lastSubmittedHeight>>
chain == <<launched, tip, irreversible>>
history == <<launchSeen, succeeded>>

\* ------------------------------------------------------------- values
\* A JavaScript number: an integer or NaN.
Num(n) == [isNaN |-> FALSE, val |-> n]
NaN == [isNaN |-> TRUE, val |-> 0]
\* ToNumber of a plain object ({result: ...}): ToPrimitive gives the string
\* "[object Object]", which is no numeric literal.
ObjectToNumber(obj) == NaN
JsMinus(a, b) == IF a.isNaN \/ b.isNaN THEN NaN ELSE Num(a.val - b.val)
\* a < b and a > b are false as soon as one side is NaN.
JsLess(a, b) == ~a.isNaN /\ ~b.isNaN /\ a.val < b.val
JsGreater(a, b) == JsLess(b, a)

\* The hash the chain reports for a height.
BlockHash(h) == [digest |-> h]
NoHash == [digest |-> 0]

\* A row of requested_validators / provider_validators.
Endorser(a) == [account |-> a, staking |-> 100]
Endorsers(as) == {Endorser(a) : a \in as}

\* Whether account a is in a list of validators.
Listed(endorsers, a) == a \in {e.account : e \in endorsers}

NoRecord == [exists |-> FALSE, requested_validators |-> {}, provider_validators |-> {}]
Record(req, prov) == [exists |-> TRUE, requested_validators |-> Endorsers(req),
                      provider_validators |-> Endorsers(prov)]

NoArgs == [validator |-> "", height |-> 0, hash |-> NoHash]

\* The locals of a handler that is not running.
Idle == [pc |-> "idle", held |-> FALSE, q |-> FALSE,
         irr |-> 0, tipResult |-> 0, start |-> 0, i |-> 0, hash |-> NoHash,
         hadRecord |-> FALSE, nsub |-> 0, args |-> NoArgs, scanned |-> <<>>]

\* ------------------------------------------------------------- the code
\* isEndorserQualified, were it to test the list instead of its accounts.
isEndorserQualified_AnyEndorser(endorsers, name) == endorsers # {}

isEndorserQualified(endorsers, name) == \E endorser \in endorsers : endorser.account = name

\* ShouldSubmit without its look at provider_validators.
ShouldSubmit_NoProviderCheck(endorsement, name) ==
  IF endorsement.exists
    THEN isEndorserQualified(endorsement.requested_validators, name)
    ELSE TRUE

\* ShouldSubmit with || in the place of &&.
ShouldSubmit_Or(endorsement, name) ==
  IF endorsement.exists
    THEN \/ isEndorserQualified(endorsement.requested_validators, name)
         \/ ~isEndorserQualified(endorsement.provider_validators, name)
    ELSE TRUE

\* The condition under which checkAndSubmitEndorsement calls submitEndorsement.
ShouldSubmit(endorsement, name) ==
  IF endorsement.exists
    THEN /\ isEndorserQualified(endorsement.requested_validators, name)
         /\ ~isEndorserQualified(endorsement.provider_validators, name)
    ELSE TRUE

\* StartHeight, were the scan to start at irreversible_height itself.
StartHeight_AtIrreversible(irreversible_height, blockcount, last) ==
  irreversible_height

\* startEndorseHeight of the catch-up task; blockcount is the object that
\* getblockcount() returned.
StartHeight(irreversible_height, blockcount, last) ==
  LET startEndorseHeight == irreversible_height + 1
  IN  IF /\ JsGreater(Num(last), Num(startEndorseHeight))
         /\ JsLess(Num(last), JsMinus(ObjectToNumber(blockcount), Num(ResumeWindow)))
        THEN last
        ELSE startEndorseHeight

Init ==
  /\ endorseRunning = FALSE
  /\ endorseCheckRunning = FALSE
  /\ startupStatus = FALSE
  /\ accountName = "alice"
  /\ lastEndorseHeight = 0
  /\ lastSubmittedHeight = 0
  /\ launched = FALSE
  /\ tip = 1
  /\ irreversible = 0
  /\ ledger = [h \in Heights |-> NoRecord]
  /\ inst = [s \in Slots |-> Idle]
  /\ launchSeen = FALSE
  /\ succeeded = {}

\* ------------------------------------------------------------- the ledger and the chain
\* The record the ledger holds for a block.
getEndorsementByBlockId(height, hash) ==
  IF height \in Heights /\ hash = BlockHash(height) THEN ledger[height] ELSE NoRecord

\* The network launches.
Launch ==
  /\ ~launched
  /\ launched' = TRUE
  /\ UNCHANGED <<globals, tip, irreversible, ledger, inst, history>>

\* Another validator endorses block h: the first endorsement of a block
\* creates its record, with the validators asked to endorse it.
OtherEndorses ==
  \E h \in 1..tip, other \in Accounts \ {accountName} :
    /\ IF ledger[h].exists
         THEN /\ Listed(ledger[h].requested_validators, other)
              /\ ~Listed(ledger[h].provider_validators, other)
              /\ ledger' = [ledger EXCEPT ![h].provider_validators = @ \cup {Endorser(other)}]
         ELSE \E req \in {{other}, Accounts} :
                ledger' = [ledger EXCEPT ![h] = Record(req, {other})]
    /\ UNCHANGED <<globals, chain, inst, history>>

\* Whether the ledger accepts endorse(validator, height, hash) now.
Accepts(validator, height, hash) ==
  LET r == getEndorsementByBlockId(height, hash)
  IN  /\ height \in Heights /\ hash = BlockHash(height)
      /\ r.exists => /\ Listed(r.requested_validators, validator)
                     /\ ~Listed(r.provider_validators, validator)

\* The ledger after it executed endorse(validator, height, hash).
Endorsed(validator, height) ==
  IF ledger[height].exists
    THEN [ledger EXCEPT ![height].provider_validators = @ \cup {Endorser(validator)}]
    ELSE [ledger EXCEPT ![height] = Record(Accounts, {validator})]

\* How executeAction can end: a result with a transaction_id, a result
\* without one, or an exception with one of the two known messages or another.
Outcomes(validator, height, hash) ==
  (IF Accepts(validator, height, hash) THEN {"txid"} ELSE {})
    \cup {"noid", "parsed", "disabled", "error"}

\* ------------------------------------------------------------- steps shared by the two tasks
Free(s) == inst[s].pc = "idle"

\* A tick takes the first slot that holds no suspended tick of its task.
CanTick(s) == Free(s) /\ \A n \in 1..(s[2] - 1) : ~Free(<<s[1], n>>)

SetInst(s, r) == inst' = [inst EXCEPT ![s] = r]

KeepGuards == UNCHANGED <<endorseRunning, endorseCheckRunning>>

\* Finally, were the guard not reset.
Finally_NoRelease(s) ==
  /\ SetInst(s, Idle)
  /\ KeepGuards

\* The finally block of a task, and the end of its handler.
Finally(s) ==
  /\ SetInst(s, Idle)
  /\ IF s[1] = "endorse"
       THEN endorseRunning' = FALSE /\ UNCHANGED endorseCheckRunning
       ELSE endorseCheckRunning' = FALSE /\ UNCHANGED endorseRunning

\* The handler ends outside its try block.
Return(s) ==
  /\ SetInst(s, Idle)
  /\ KeepGuards

\* An exception leaves the handler: it was thrown outside the try block, and
\* the promise the handler returned to the scheduler is rejected.
Thrown(s) ==
  /\ SetInst(s, [Idle EXCEPT !.pc = "rejected"])
  /\ KeepGuards

\* The catch block of a task, up to its await sleep(RETRY_INTERVAL_MS).  What
\* the try block declared is out of scope there.
Caught(s, r) ==
  /\ SetInst(s, [Idle EXCEPT !.pc = "sleep", !.held = r.held])
  /\ KeepGuards

\* Continue, were the call to end in the catch block of the task.
Continue_Backoff(s, r) == Caught(s, r)

\* Continue, were the loop's test i < blockcount.result.
Continue_StopEarly(s, r) ==
  IF s[1] = "endorse"
    THEN Finally(s)
    ELSE IF r.i + 1 < r.tipResult
           THEN SetInst(s, [r EXCEPT !.i = r.i + 1, !.pc = "blockhash"]) /\ KeepGuards
           ELSE Finally(s)

\* What follows the return of checkAndSubmitEndorsement: the end of the try
\* block in the regular task, the next round of the for loop in the catch-up task.
Continue(s, r) ==
  IF s[1] = "endorse"
    THEN Finally(s)
    ELSE IF r.i + 1 <= r.tipResult
           THEN SetInst(s, [r EXCEPT !.i = r.i + 1, !.pc = "blockhash"]) /\ KeepGuards
           ELSE Finally(s)

\* The try block of the regular task, up to its first await.
EndorseEnter(s, r) ==
  IF endorseRunning
    THEN Finally(s)
    ELSE /\ endorseRunning' = TRUE
         /\ UNCHANGED endorseCheckRunning
         /\ SetInst(s, [r EXCEPT !.pc = "blockcount", !.held = TRUE])

\* The catch-up task from its guard to its first await.
CheckEnter(s, r) ==
  IF endorseCheckRunning
    THEN Return(s)
    ELSE /\ endorseCheckRunning' = TRUE
         /\ UNCHANGED endorseRunning
         /\ SetInst(s, [r EXCEPT !.pc = "chainstate", !.held = TRUE])

Enter(s, r) == IF s[1] = "endorse" THEN EndorseEnter(s, r) ELSE CheckEnter(s, r)

\* GateOpen, were the answer not looked at.
GateOpen_Always(status) == TRUE

\* Whether the handler goes on after the launch query answered status.
GateOpen(status) == status

\* A tick of a task fires: the startup gate, then the task's guard.
Tick(s) ==
  /\ CanTick(s)
  /\ IF startupStatus
       THEN Enter(s, Idle)
       ELSE SetInst(s, [Idle EXCEPT !.pc = "gate", !.q = launched]) /\ KeepGuards
  /\ UNCHANGED <<startupStatus, accountName, lastEndorseHeight, lastSubmittedHeight,
                 chain, ledger, history>>

\* getStartupStatus() returns (the ledger's answer dates from some moment
\* between the query and its return) or fails; the await stands before the
\* try block, and a failure leaves the handler.
GateReturn(s) ==
  /\ inst[s].pc = "gate"
  /\ \/ /\ Thrown(s)
        /\ UNCHANGED <<startupStatus, launchSeen>>
     \/ \E status \in {inst[s].q, launched} :
          /\ startupStatus' = status
          /\ launchSeen' = (launchSeen \/ status)
          /\ IF GateOpen(status)
               THEN Enter(s, inst[s])
               ELSE Return(s)
  /\ UNCHANGED <<accountName, lastEndorseHeight, lastSubmittedHeight, chain, ledger,
                 succeeded>>

\* getChainstate() returns a chain state, returns nothing, or fails.
ChainstateReturn(s) ==
  /\ s[1] = "check"
  /\ inst[s].pc = "chainstate"
  /\ \/ Caught(s, inst[s])
     \/ Finally(s)
     \/ SetInst(s, [inst[s] EXCEPT !.irr = irreversible, !.pc = "blockcount"]) /\ KeepGuards
  /\ UNCHANGED <<startupStatus, accountName, lastEndorseHeight, lastSubmittedHeight,
                 chain, ledger, history>>

\* getblockcount() returns {result: tip} or fails.  The regular task goes on
\* to fetch the hash of the tip; the catch-up task computes where its scan
\* starts and enters its loop.
BlockcountReturn(s) ==
  /\ inst[s].pc = "blockcount"
  /\ \/ Caught(s, inst[s])
     \/ LET blockcount == [result |-> tip]
            r == [inst[s] EXCEPT !.tipResult = blockcount.result]
        IN  IF s[1] = "endorse"
              THEN SetInst(s, [r EXCEPT !.i = blockcount.result, !.pc = "blockhash"])
                     /\ KeepGuards
              ELSE LET startEndorseHeight == StartHeight(r.irr, blockcount, lastEndorseHeight)
                       r1 == [r EXCEPT !.start = startEndorseHeight,
                                       !.i = startEndorseHeight, !.irr = 0]
                   IN  IF startEndorseHeight <= blockcount.result
                         THEN SetInst(s, [r1 EXCEPT !.pc = "blockhash"]) /\ KeepGuards
                         ELSE Finally(s)
  /\ UNCHANGED <<startupStatus, accountName, lastEndorseHeight, lastSubmittedHeight,
                 chain, ledger, history>>

\* getblockhash(i) returns or fails; on return checkAndSubmitEndorsement is
\* called and waits for the block's endorsement record.
BlockhashReturn(s) ==
  /\ inst[s].pc = "blockhash"
  /\ \/ Caught(s, inst[s])
     \/ SetInst(s, [inst[s] EXCEPT !.hash = BlockHash(inst[s].i),
                                   !.scanned = Append(@, inst[s].i),
                                   !.hadRecord = FALSE, !.nsub = 0, !.args = NoArgs,
                                   !.pc = "record"])
          /\ KeepGuards
  /\ UNCHANGED <<startupStatus, accountName, lastEndorseHeight, lastSubmittedHeight,
                 chain, ledger, history>>

\* SubmitArgs, were the hash passed that of another block.
SubmitArgs_OtherHash(name, height, hash) ==
  [validator |-> name, height |-> height, hash |-> BlockHash(height - 1)]

\* The arguments checkAndSubmitEndorsement passes to submitEndorsement.
SubmitArgs(name, height, hash) == [validator |-> name, height |-> height, hash |-> hash]

\* checkAndSubmitEndorsement from the return of getEndorsementByBlockId: it
\* fails, or the record decides whether submitEndorsement is called, which
\* sends the endorse action and waits.
RecordReturn(s) ==
  /\ inst[s].pc = "record"
  /\ \/ Caught(s, inst[s])
     \/ LET endorsement == getEndorsementByBlockId(inst[s].i, inst[s].hash)
            r == [inst[s] EXCEPT !.hadRecord = endorsement.exists]
            args == SubmitArgs(accountName, inst[s].i, inst[s].hash)
        IN  IF ShouldSubmit(endorsement, accountName)
              THEN /\ SetInst(s, [r EXCEPT !.nsub = @ + 1, !.args = args, !.pc = "execute"])
                   /\ KeepGuards
              ELSE Continue(s, r)
  /\ UNCHANGED <<startupStatus, accountName, lastEndorseHeight, lastSubmittedHeight,
                 chain, ledger, history>>

\* submitEndorsement, were the height recorded whatever executeAction did.
submitEndorsement_AnyOutcome(outcome, height) == height

\* submitEndorsement, were a result enough and its transaction_id not looked at.
submitEndorsement_AnyResult(outcome, height) ==
  IF outcome \in {"txid", "noid"} THEN height ELSE lastEndorseHeight

\* lastEndorseHeight after submitEndorsement handled the outcome of executeAction.
submitEndorsement(outcome, height) ==
  IF outcome = "txid" THEN height ELSE lastEndorseHeight

\* lastSubmittedHeight after checkAndSubmitEndorsement's call of
\* submitEndorsement returned; the assignment stands in the branch of an
\* existing record.
SubmittedHeight(hadRecord, height) ==
  IF hadRecord THEN height ELSE lastSubmittedHeight

\* executeAction of tick s ends with outcome: submitEndorsement handles it,
\* whatever it is, and returns to checkAndSubmitEndorsement, which returns to
\* the task.
Executed(s, outcome) ==
  LET a == inst[s].args
  IN  /\ inst[s].pc = "execute"
      /\ outcome \in Outcomes(a.validator, a.height, a.hash)
      /\ ledger' = IF outcome = "txid" THEN Endorsed(a.validator, a.height) ELSE ledger
      /\ succeeded' = IF outcome = "txid" THEN succeeded \cup {a.height} ELSE succeeded
      /\ lastEndorseHeight' = submitEndorsement(outcome, a.height)
      /\ lastSubmittedHeight' = SubmittedHeight(inst[s].hadRecord, inst[s].i)
      /\ Continue(s, inst[s])

\* executeAction returns or fails.
ExecuteReturn(s) ==
  /\ inst[s].pc = "execute"
  /\ \E outcome \in {"txid", "noid", "parsed", "disabled", "error"} : Executed(s, outcome)
  /\ UNCHANGED <<startupStatus, accountName, chain, launchSeen>>

\* SleepReturn, were the try block inside the loop: the scan goes on.
SleepReturn_Resume(s) ==
  /\ inst[s].pc = "sleep"
  /\ SetInst(s, [inst[s] EXCEPT !.pc = "blockhash"])
  /\ KeepGuards
  /\ UNCHANGED <<startupStatus, accountName, lastEndorseHeight, lastSubmittedHeight,
                 chain, ledger, history>>

\* sleep(RETRY_INTERVAL_MS) ends: the finally block.
SleepReturn(s) ==
  /\ inst[s].pc = "sleep"
  /\ Finally(s)
  /\ UNCHANGED <<startupStatus, accountName, lastEndorseHeight, lastSubmittedHeight,
                 chain, ledger, history>>

\* The scheduler and the runtime are done with a handler whose promise was
\* rejected; the tasks stay scheduled.
Rejected(s) ==
  /\ inst[s].pc = "rejected"
  /\ Return(s)
  /\ UNCHANGED <<startupStatus, accountName, lastEndorseHeight, lastSubmittedHeight,
                 chain, ledger, history>>

\* The client with overlapping ticks of both tasks, on a chain whose tip
\* stays where it was when the client started.
Next ==
  \/ Launch
  \/ OtherEndorses
  \/ \E s \in Slots : Tick(s)
  \/ \E s \in Slots : GateReturn(s)
  \/ \E s \in Slots : ChainstateReturn(s)
  \/ \E s \in Slots : BlockcountReturn(s)
  \/ \E s \in Slots : BlockhashReturn(s)
  \/ \E s \in Slots : RecordReturn(s)
  \/ \E s \in Slots : ExecuteReturn(s)
  \/ \E s \in Slots : SleepReturn(s)
  \/ \E s \in Slots : Rejected(s)

Spec == Init /\ [][Next]_vars

\* The catch-up task alone, its ticks one after the other, on a launched
\* network and a long chain.
InitCatchUp ==
  /\ endorseRunning = FALSE
  /\ endorseCheckRunning = FALSE
  /\ startupStatus = FALSE
  /\ accountName \in Accounts
  /\ lastEndorseHeight = 0
  /\ lastSubmittedHeight = 0
  /\ launched = TRUE
  /\ tip = DeepTip
  /\ irreversible \in 0..DeepTip
  /\ \E n \in 0..OthersAhead, m \in 0..OthersAhead :
       /\ m <= n
       /\ ledger = [h \in Heights |->
                     IF h <= m THEN Record(Accounts, Accounts \ {accountName})
                     ELSE IF h <= n
                            THEN Record(Accounts \ {accountName}, Accounts \ {accountName})
                            ELSE NoRecord]
  /\ inst = [s \in Slots |-> Idle]
  /\ launchSeen = FALSE
  /\ succeeded = {}

CatchUpSlot == <<"check", 1>>

NextCatchUp ==
  \/ Tick(CatchUpSlot)
  \/ GateReturn(CatchUpSlot)
  \/ ChainstateReturn(CatchUpSlot)
  \/ BlockcountReturn(CatchUpSlot)
  \/ BlockhashReturn(CatchUpSlot)
  \/ RecordReturn(CatchUpSlot)
  \/ ExecuteReturn(CatchUpSlot)
  \/ SleepReturn(CatchUpSlot)
  \/ Rejected(CatchUpSlot)

SpecCatchUp == InitCatchUp /\ [][NextCatchUp]_vars

\* The client with at most MaxPending ticks of a task suspended at a time.
NextPending ==
  \/ Launch
  \/ OtherEndorses
  \/ \E s \in PendingSlots : Tick(s)
  \/ \E s \in PendingSlots : GateReturn(s)
  \/ \E s \in PendingSlots : ChainstateReturn(s)
  \/ \E s \in PendingSlots : BlockcountReturn(s)
  \/ \E s \in PendingSlots : BlockhashReturn(s)
  \/ \E s \in PendingSlots : RecordReturn(s)
  \/ \E s \in PendingSlots : ExecuteReturn(s)
  \/ \E s \in PendingSlots : SleepReturn(s)
  \/ \E s \in PendingSlots : Rejected(s)

SpecPending == Init /\ [][NextPending]_vars

\* A call that was made returns or fails, and a sleep ends.
Returns(s) ==
  \/ GateReturn(s)
  \/ ChainstateReturn(s)
  \/ BlockcountReturn(s)
  \/ BlockhashReturn(s)
  \/ RecordReturn(s)
  \/ ExecuteReturn(s)
  \/ SleepReturn(s)
  \/ Rejected(s)

\* SpecPending under the scheduling the runtime gives.
FairSpec == SpecPending /\ \A s \in PendingSlots : WF_vars(Returns(s))

\* ------------------------------------------------------------- properties
Guard(task) == IF task = "endorse" THEN endorseRunning ELSE endorseCheckRunning

\* The cycles of a task that are past its guard check and have not ended.
InFlight(task) == {s \in Slots : s[1] = task /\ inst[s].held}

\* The record the ledger holds for the block a tick is working on.
RecordOf(s) == getEndorsementByBlockId(inst[s].i, BlockHash(inst[s].i))

\* C1: at every instant at most one regular-endorsement cycle and at most
\* one catch-up cycle is past its guard check and not yet finished.
C1_AtMostOneCyclePerTask == \A task \in Tasks : Cardinality(InFlight(task)) <= 1

\* C2 as claimed: no endorse action of the account is on its way to the
\* ledger for a block whose record lists the account in provider_validators
\* (the ledger executes the action at a moment between its sending and the
\* return of executeAction).
C2_NeverSubmittedWhenListed ==
  \A s \in Slots :
    inst[s].pc = "execute" => ~Listed(RecordOf(s).provider_validators, accountName)

\* C2 as amended: the endorse action is never sent for a block whose record,
\* as the same call of checkAndSubmitEndorsement read it, lists the account
\* in provider_validators.
C2_NeverSentWhenReadListed ==
  [][\A s \in Slots :
       (inst[s].pc = "record" /\ inst'[s].pc = "execute")
         => ~Listed(RecordOf(s).provider_validators, accountName)]_vars

\* Both tasks have sent an endorse action for the same block, from a record
\* that existed when they read it.
C2_Witness ==
  \E s, t \in Slots :
    /\ s[1] = "endorse" /\ t[1] = "check"
    /\ inst[s].pc = "execute" /\ inst[t].pc = "execute"
    /\ inst[s].i = inst[t].i
    /\ inst[s].hadRecord /\ inst[t].hadRecord

\* The step in which checkAndSubmitEndorsement of tick s gets the record it asked for.
GotRecord(s) == inst[s].pc = "record" /\ inst'[s].pc \notin {"record", "sleep"}

\* C3: when the record exists, one call of checkAndSubmitEndorsement calls
\* submitEndorsement exactly once if the account is in requested_validators
\* and not in provider_validators, and not at all otherwise.
C3_SubmitsOnceIffRequestedAndNotProvided ==
  [][\A s \in Slots :
       /\ (GotRecord(s) /\ RecordOf(s).exists)
            => inst'[s].nsub =
                 IF /\ Listed(RecordOf(s).requested_validators, accountName)
                    /\ ~Listed(RecordOf(s).provider_validators, accountName)
                   THEN 1 ELSE 0
       /\ inst[s].pc = "execute" => inst'[s].nsub <= 1]_vars

\* A call that found a record has called submitEndorsement once.
C3_Witness ==
  \E s \in Slots : inst[s].pc = "execute" /\ inst[s].hadRecord /\ inst[s].nsub = 1

\* C4: when the ledger holds no record for (h, x), one call of
\* checkAndSubmitEndorsement(A, h, x) calls submitEndorsement exactly once,
\* with (A, h, x).
C4_SubmitsOnceWhenNoRecord ==
  [][\A s \in Slots :
       (GotRecord(s) /\ ~RecordOf(s).exists)
         => /\ inst'[s].pc = "execute"
            /\ inst'[s].nsub = 1
            /\ inst'[s].args = [validator |-> accountName, height |-> inst[s].i,
                                hash |-> BlockHash(inst[s].i)]]_vars

\* A call that found no record has called submitEndorsement.
C4_Witness ==
  \E s \in Slots :
    /\ inst[s].pc = "execute" /\ ~inst[s].hadRecord /\ inst[s].nsub = 1
    /\ inst[s].args.height > 1

\* C5: once an endorse action of the account for a block has succeeded and
\* the ledger lists the account in the block's provider_validators, a later
\* call of checkAndSubmitEndorsement for that block sends no endorse action.
C5_NoSecondSubmission ==
  [][\A s \in Slots :
       (GotRecord(s) /\ inst[s].i \in succeeded) => inst'[s].pc # "execute"]_vars

\* A catch-up scan has gone past a block that an earlier call endorsed, and
\* the call it made for that block sent nothing.
C5_Witness ==
  \E s \in Slots :
    /\ inst[s].pc = "blockhash" /\ inst[s].scanned # <<>>
    /\ inst[s].scanned[Len(inst[s].scanned)] \in succeeded
    /\ inst[s].nsub = 0

\* A tick of s's task goes through its gate in this step.
PassesGate(s) ==
  \/ startupStatus /\ Tick(s)
  \/ startupStatus' /\ inst[s].pc = "gate" /\ GateReturn(s)

\* C6: a tick that fires while its task's run-guard is held starts nothing
\* and leaves the run-guards and the rest of the run state as they are.
C6_TickWhileHeldIsNoOp ==
  [][\A s \in Slots :
       (Guard(s[1]) /\ PassesGate(s))
         => /\ inst'[s].pc = "idle"
            /\ UNCHANGED <<endorseRunning, endorseCheckRunning,
                           lastEndorseHeight, lastSubmittedHeight>>]_vars

\* C7: the cycle that took a guard leaves it false when it ends, on every
\* exit path, and a held guard is released in the end (each guard is false
\* again and again, which is to say that it never stays held for ever).
C7_GuardReleased ==
  /\ [][\A s \in Slots : (inst[s].held /\ ~inst'[s].held) => ~Guard(s[1])']_vars
  /\ []<>(~endorseRunning)
  /\ []<>(~endorseCheckRunning)

\* Both guards are held, one by a cycle that caught an error and sleeps,
\* the other by a cycle that waits for the ledger.
C7_Witness ==
  \E s, t \in Slots :
    /\ s[1] = "endorse" /\ t[1] = "check"
    /\ inst[s].held /\ inst[t].held /\ endorseRunning /\ endorseCheckRunning
    /\ inst[s].pc = "sleep" /\ inst[t].pc = "execute"

\* The heights from a to b, in ascending order.
Range(a, b) == [k \in 1..(b - a + 1) |-> a + k - 1]

\* C8: a catch-up cycle reconciles the heights from its start height on, in
\* ascending order and one by one, and when it ends without an error it has
\* reconciled every height up to the tip it read, once.
C8_ScanInOrder ==
  /\ [](\A s \in Slots :
          (s[1] = "check" /\ inst[s].pc \in {"blockhash", "record", "execute"})
            => inst[s].scanned = Range(inst[s].start, inst[s].start + Len(inst[s].scanned) - 1))
  /\ [][\A s \in Slots :
          (s[1] = "check" /\ inst[s].pc \in {"record", "execute"} /\ inst'[s].pc = "idle")
            => inst[s].scanned = Range(inst[s].start, inst[s].tipResult)]_vars

\* A scan of at least three heights is at the tip.
C8_Witness ==
  \E s \in Slots :
    /\ s[1] = "check" /\ inst[s].pc = "execute"
    /\ inst[s].i = inst[s].tipResult
    /\ Len(inst[s].scanned) >= 3

\* C9: the scan starts at lastEndorseHeight if and only if
\* lastEndorseHeight > irreversible_height + 1 and lastEndorseHeight < tip - 6,
\* and at irreversible_height + 1 otherwise.
C9_StartSelection ==
  [][\A s \in Slots :
       (s[1] = "check" /\ inst[s].pc = "blockcount" /\ inst'[s].pc = "blockhash")
         => inst'[s].start =
              IF /\ lastEndorseHeight > inst[s].irr + 1
                 /\ lastEndorseHeight < tip - ResumeWindow
                THEN lastEndorseHeight
                ELSE inst[s].irr + 1]_vars

\* C10: whatever a tick does behind the startup gate (a fetch from the
\* chain, a read of the chain state or of a record, taking a run-guard, an
\* endorse action) comes after a launch query that answered true.
C10_NothingBeforeLaunch ==
  (\/ \E s \in Slots : inst[s].pc \notin {"idle", "gate", "rejected"}
   \/ endorseRunning
   \/ endorseCheckRunning
   \/ lastEndorseHeight # 0
   \/ lastSubmittedHeight # 0
   \/ succeeded # {})
    => launchSeen

\* An endorse action is on its way while a tick of the other task still
\* waits for the answer to its launch query.
C10_Witness ==
  \E s, t \in Slots :
    /\ inst[s].pc = "execute" /\ inst[t].pc = "gate" /\ launchSeen

\* C11: the startup gate is a latch: once startupStatus is true it is never
\* false in a later state, whatever the order in which the launch queries of
\* overlapping ticks return.
C11_GateIsLatch == [][startupStatus => startupStatus']_vars

\* C12: lastSubmittedHeight never decreases: every assignment to it writes a
\* value greater than or equal to the value it had.
C12_SubmittedHeightMonotone == [][lastSubmittedHeight' >= lastSubmittedHeight]_vars

\* C13: lastSubmittedHeight is set to h exactly when an endorse action for h
\* succeeded: after a successful submission for h, with or without a record
\* found before it, lastSubmittedHeight is h, and lastSubmittedHeight is
\* never set to a height whose submission did not succeed.
C13_SubmittedHeightIffSuccess ==
  [][/\ \A h \in Heights : h \in succeeded' \ succeeded => lastSubmittedHeight' = h
     /\ lastSubmittedHeight' # lastSubmittedHeight => lastSubmittedHeight' \in succeeded']_vars

\* C14: a response of the ledger write with a transaction identifier sets
\* lastEndorseHeight to the height written; every other outcome (a response
\* without one, a benign rejection, an unknown failure) leaves it as it was;
\* so lastEndorseHeight is 0 or a height whose submission succeeded.
C14_EndorseHeightOnlyOnSuccess ==
  /\ [](lastEndorseHeight = 0 \/ lastEndorseHeight \in succeeded)
  /\ [][\A s \in Slots :
          /\ Executed(s, "txid") => lastEndorseHeight' = inst[s].args.height
          /\ \A outcome \in {"noid", "parsed", "disabled", "error"} :
               Executed(s, outcome) => lastEndorseHeight' = lastEndorseHeight]_vars

\* A catch-up scan endorsed block 1, then sent an endorse action for block 2
\* that did not succeed, and is at block 3.
C14_Witness ==
  \E s \in Slots :
    /\ inst[s].pc = "blockhash" /\ inst[s].i = 3 /\ inst[s].nsub = 1
    /\ succeeded = {1} /\ lastEndorseHeight = 1

\* C15: when the ledger write fails with the already-parsed or the
\* endorsement-disabled message, submitEndorsement raises nothing to its
\* caller, lastEndorseHeight is unchanged, and the cycle goes on as after a
\* success: no backoff sleep, a catch-up scan goes to the next height (or
\* ends with its guard released after the last one), a regular cycle ends
\* with its guard released.
C15_BenignRejectionTolerated ==
  [][\A s \in Slots : \A outcome \in {"parsed", "disabled"} :
       Executed(s, outcome)
         => /\ lastEndorseHeight' = lastEndorseHeight
            /\ inst'[s].pc # "sleep"
            /\ IF s[1] = "check" /\ inst[s].i < inst[s].tipResult
                 THEN inst'[s].pc = "blockhash" /\ inst'[s].i = inst[s].i + 1
                 ELSE inst'[s].pc = "idle" /\ ~Guard(s[1])']_vars

\* A catch-up scan sent an endorse action for block 1, whose record it had
\* found, the action did not succeed, and the scan is at block 2 with its
\* guard held and nothing recorded in lastEndorseHeight.
C15_Witness ==
  \E s \in Slots :
    /\ s[1] = "check" /\ inst[s].pc = "blockhash" /\ inst[s].i = 2
    /\ inst[s].nsub = 1 /\ inst[s].hadRecord
    /\ succeeded = {} /\ lastEndorseHeight = 0 /\ endorseCheckRunning

\* C16: a failure of any call made during a tick of either task (launch
\* query, chain tip or hash fetch, chain-state read, record read, ledger
\* write) is caught inside the tick: no exception leaves a handler, and no
\* run-guard stays held without a cycle that holds it.
C16_ErrorsContained ==
  /\ \A s \in Slots : inst[s].pc # "rejected"
  /\ \A task \in Tasks : Guard(task) => InFlight(task) # {}

C18_FailedScanStopsAndKeeps ==
  [][\A s \in Slots :
       s[1] = "check"
         => /\ (inst[s].pc \in {"blockhash", "record"} /\ inst'[s].pc = "sleep")
                 => /\ UNCHANGED <<lastEndorseHeight, lastSubmittedHeight, succeeded, ledger>>
                    /\ endorseCheckRunning'
            /\ (inst[s].pc = "sleep" /\ inst'[s].pc # "sleep")
                 => /\ UNCHANGED <<lastEndorseHeight, lastSubmittedHeight, succeeded, ledger>>
                    /\ inst'[s] = Idle
            /\ (inst[s].pc = "blockcount" /\ inst'[s].pc = "blockhash")
                 => /\ inst'[s].start \in {inst[s].irr + 1, lastEndorseHeight}
                    /\ inst'[s].i = inst'[s].start
                    /\ inst'[s].scanned = <<>>]_vars

\* A catch-up cycle sleeps after a failure above block 1, and what the
\* endorsement of block 1 gave lastEndorseHeight and lastSubmittedHeight is
\* there.
C18_Witness ==
  \E s \in Slots :
    /\ s[1] = "check" /\ inst[s].pc = "sleep" /\ endorseCheckRunning
    /\ irreversible = 0
    /\ lastEndorseHeight = 1 /\ lastSubmittedHeight = 1 /\ succeeded = {1}

\* C19: while a cycle that caught an error sleeps, the run-guard of its task
\* is held, and no other cycle of that task is past the guard: the guard is
\* released only when the sleep has ended.
C19_GuardHeldDuringBackoff ==
  \A s \in Slots :
    inst[s].pc = "sleep" => Guard(s[1]) /\ InFlight(s[1]) = {s}

\* C20: a catch-up cycle reconciles only heights h with
\* irreversible_height < h <= tip, the values it read when it started: it
\* fetches, reads and sends for no height at or below the irreversible
\* height or above the tip, and when irreversible_height + 1 > tip it
\* reconciles nothing and ends with its guard released.
C20_ScanWithinRange ==
  /\ [](\A s \in Slots :
          (s[1] = "check" /\ inst[s].pc \in {"blockhash", "record", "execute"})
            => /\ irreversible < inst[s].start
               /\ inst[s].start <= inst[s].i /\ inst[s].i <= inst[s].tipResult
               /\ inst[s].pc = "execute" => inst[s].args.height = inst[s].i)
  /\ [][\A s \in Slots :
          (s[1] = "check" /\ inst[s].pc = "blockcount"
             /\ inst'[s].pc \notin {"blockcount", "sleep"})
            => IF inst[s].irr + 1 > tip
                 THEN inst'[s] = Idle /\ ~endorseCheckRunning'
                 ELSE /\ inst'[s].pc = "blockhash"
                      /\ inst[s].irr < inst'[s].start /\ inst'[s].start <= tip]_vars

\* A catch-up scan that started right above an irreversible height of 3 is
\* sending the endorse action for the tip.
C20_Witness ==
  \E s \in Slots :
    /\ s[1] = "check" /\ inst[s].pc = "execute"
    /\ irreversible = 3 /\ inst[s].start = 4
    /\ inst[s].args.height = inst[s].tipResult

====
